---- MODULE Spec2Model ----
(***************************************************************************)
(* The x86 back end of the JIT filter compiler (jit/x86.h): the walker     *)
(* emit_code over a postfix instruction stream, the operand stack of       *)
(* jit_value_t, operand materialisation (load_register/load_registers),    *)
(* type promotion (convert), the per-opcode dispatch, and the code that    *)
(* read_mem_varsize generates for string and binary columns.               *)
(***************************************************************************)
EXTENDS Integers, Sequences, FiniteSets, TLC

(***************************************************************************)
(* Bounds.                                                                 *)
(***************************************************************************)
\* longest instruction stream the walker is run on
MaxSize == 5
\* deepest evaluation stack (expression nesting depth of the stream)
MaxDepth == 2
\* number of 32-bit words of the data vector of a string/binary column
DataWords == 5

(***************************************************************************)
(* data_type_t, data_kind_t and the operand model.                         *)
(***************************************************************************)
Int32Class == {"i8", "i16", "i32"}
NumericTypes == {"i8", "i16", "i32", "i64", "f32", "f64"}
HeaderTypes == {"string_header", "binary_header", "varchar_header"}
DataTypes == NumericTypes \cup {"i128"} \cup HeaderTypes

\* a double literal m * 10^e, m a single signed decimal digit
DZero == [m |-> 0, e |-> 0]
\* an int64_t literal q * 2^31 + r with 0 <= r < 2^31
I64(q, r) == [q |-> q, r |-> r]
IZero == I64(0, 0)
\* no immediate payload (the operand is not an Imm)
NoImm == [isInteger |-> TRUE, i |-> IZero, d |-> DZero]
ImmInt(n) == [isInteger |-> TRUE, i |-> n, d |-> DZero]
ImmDouble(x) == [isInteger |-> FALSE, i |-> IZero, d |-> x]

\* jit_value_t: operand (Imm, Mem, 32-bit Gp, 64-bit Gp, Xmm), data type and
\* data kind.  slot tags the evaluation-stack position the operand was
\* pushed at (0: not from the stack); it only identifies the operand through
\* materialisation and conversion.
JV(o, t, dk, k) == [op |-> o, dtype |-> t, dkind |-> dk, k |-> k, slot |-> 0]
NoValue == JV("none", "none", "kMemory", NoImm)

\* one emitted primitive or move: its name, the slots of its operands and the
\* null_check flag it was emitted with
P2(name, l, r, nc) == [prim |-> name, l |-> l.slot, r |-> r.slot, nc |-> nc]
P1(name, v, nc) == [prim |-> name, l |-> v.slot, r |-> 0, nc |-> nc]
P0(name) == [prim |-> name, l |-> 0, r |-> 0, nc |-> FALSE]

\* an instruction emitted directly on the compiler (not an impl/x86.h primitive)
Asm(name) == <<"asm", name>>

\* the value a primitive returns keeps the identity of its first operand
Res(o, t, dk, from) == [JV(o, t, dk, NoImm) EXCEPT !.slot = from.slot]

(***************************************************************************)
(* Outcomes.  Every translated function returns the SET of outcomes it can *)
(* have: st says whether the compiler goes on or the process dies, v (and  *)
(* w for a pair) the returned value, vals the stack left behind and code   *)
(* what was emitted.  A deterministic function returns a singleton.        *)
(***************************************************************************)
Ok(v, code) == [st |-> "ok", v |-> v, w |-> NoValue, vals |-> <<>>, code |-> code]
Ok2(v, w, code) == [st |-> "ok", v |-> v, w |-> w, vals |-> <<>>, code |-> code]
Crashed == [st |-> "crash", v |-> NoValue, w |-> NoValue, vals |-> <<>>, code |-> <<>>]

\* what a function returns after undefined behaviour (a __builtin_unreachable()
\* that is reached, a pop of an empty ZoneStack): some operand of some type
Garbage ==
    { JV("gpd", "i32", "kMemory", NoImm),
      JV("gpq", "i64", "kMemory", NoImm),
      JV("xmm", "f64", "kMemory", NoImm) }

\* undefined behaviour: the process dies, or the function returns garbage
Undefined(from) ==
    {Crashed} \cup { Ok([g EXCEPT !.slot = from.slot], <<>>) : g \in Garbage }

\* run F on every outcome of S that went on, emitted code in program order
Then(S, F(_)) ==
    UNION { IF o.st = "crash" THEN {Crashed}
            ELSE { IF n.st = "crash" THEN Crashed
                   ELSE [n EXCEPT !.code = o.code \o n.code] : n \in F(o) }
          : o \in S }

(***************************************************************************)
(* Memory addressing: read_vars_mem, read_mem and its helpers, read_imm.   *)
(***************************************************************************)
\* 1 << type_shift(type) for the types that have a storage width
type_size(t) ==
    CASE t = "i8" -> 1
      [] t = "i16" -> 2
      [] t \in {"i32", "f32"} -> 4
      [] t \in {"i64", "f64"} -> 8
      [] OTHER -> 16

read_vars_mem(type) == { Ok(JV("mem", type, "kMemory", NoImm), <<>>) }

\* what read_mem_varsize emits and returns at compile time; what the emitted
\* code computes at run time is the Vs* machine further down
read_mem_varsize(header_size) ==
    LET code == << P0(Asm("mov")), P0(Asm("inc")), P0(Asm("mov")), P0(Asm("mov")), P0(Asm("mov")),
                   P0(Asm("sub")), P0(Asm("sub")), P0(Asm("jnz")), P0(Asm("mov")), P0(Asm("mov")) >>
    IN  IF header_size = 4
        THEN { Ok(JV("gpd", "i32", "kMemory", NoImm), code) }
        ELSE { Ok(JV("gpq", "i64", "kMemory", NoImm), code) }

read_mem_varchar_header ==
    { Ok(JV("gpq", "i64", "kMemory", NoImm),
         << P0(Asm("mov")), P0(Asm("mov")), P0(Asm("sal")), P0(Asm("mov")) >>) }

read_mem(type) ==
    IF type = "varchar_header" THEN read_mem_varchar_header
    ELSE LET header_size == CASE type = "string_header" -> 4
                              [] type = "binary_header" -> 8
                              [] OTHER -> 0
         IN  IF header_size # 0 THEN read_mem_varsize(header_size)
             ELSE IF type_size(type) <= 8
                  THEN { Ok(JV("mem", type, "kMemory", NoImm), << P0(Asm("mov")) >>) }
                  ELSE { Ok(JV("mem", type, "kMemory", NoImm),
                            << P0(Asm("mov")), P0(Asm("mov")), P0(Asm("sal")) >>) }

read_imm(instr) ==
    LET type == instr.options
    IN  CASE type \in {"i8", "i16", "i32", "i64"} ->
                { Ok(JV("imm", type, "kConst", ImmInt(instr.ilo)), <<>>) }
          [] type = "i128" ->
                { Ok(JV("mem", type, "kMemory", NoImm), <<>>) }
          [] type \in {"f32", "f64"} ->
                { Ok(JV("imm", type, "kConst", ImmDouble(instr.d)), <<>>) }
          [] OTHER -> Undefined(NoValue)

(***************************************************************************)
(* Operand materialisation: mem2reg, imm2reg, load_register(s).            *)
(***************************************************************************)
mem2reg(v) ==
    LET type == v.dtype
    IN  CASE type \in {"i8", "i16"} ->
                { Ok(Res("gpd", type, "kMemory", v), << P1(Asm("movsx"), v, FALSE) >>) }
          [] type = "i32" ->
                { Ok(Res("gpd", type, "kMemory", v), << P1(Asm("mov"), v, FALSE) >>) }
          [] type = "i64" ->
                { Ok(Res("gpq", type, "kMemory", v), << P1(Asm("mov"), v, FALSE) >>) }
          [] type = "i128" ->
                { Ok(Res("xmm", type, "kMemory", v), << P1(Asm("movdqu"), v, FALSE) >>) }
          [] type = "f32" ->
                { Ok(Res("xmm", type, "kMemory", v), << P1(Asm("movss"), v, FALSE) >>) }
          [] type = "f64" ->
                { Ok(Res("xmm", type, "kMemory", v), << P1(Asm("movsd"), v, FALSE) >>) }
          [] OTHER -> Undefined(v)

\* x >= INT32_MIN && x <= INT32_MAX, on x = q * 2^31 + r: exactly q in {-1, 0}
is_int32(x) == x.q >= -1 /\ x.q <= 0

\* x >= FLT_MIN (1.17549435e-38) && x <= FLT_MAX (3.40282347e+38), on m * 10^e
is_float(x) ==
    /\ x.m > 0
    /\ (x.e > -38 \/ (x.e = -38 /\ x.m >= 2))
    /\ (x.e < 38 \/ (x.e = 38 /\ x.m <= 3))

imm2reg(dst_type, v) ==
    LET k == v.k
    IN  IF k.isInteger
        THEN CASE dst_type = "f32" ->
                    { Ok(Res("xmm", "f32", "kConst", v), << P1(Asm("movss"), v, FALSE) >>) }
               [] dst_type = "f64" ->
                    { Ok(Res("xmm", "f64", "kConst", v), << P1(Asm("movsd"), v, FALSE) >>) }
               [] OTHER ->
                    IF dst_type = "i64" \/ ~is_int32(k.i)
                    THEN { Ok(Res("gpq", "i64", "kConst", v), << P1(Asm("movabs"), v, FALSE) >>) }
                    ELSE { Ok(Res("gpd", dst_type, "kConst", v), << P1(Asm("mov"), v, FALSE) >>) }
        ELSE IF dst_type = "i64" \/ dst_type = "f64" \/ ~is_float(k.d)
             THEN { Ok(Res("xmm", "f64", "kConst", v), << P1(Asm("movsd"), v, FALSE) >>) }
             ELSE { Ok(Res("xmm", "f32", "kConst", v), << P1(Asm("movss"), v, FALSE) >>) }

isImm(v) == v.op = "imm"
isMem(v) == v.op = "mem"

load_register(dst_type, v) ==
    IF isImm(v) THEN imm2reg(dst_type, v)
    ELSE IF isMem(v) THEN mem2reg(v)
    ELSE { Ok(v, <<>>) }

\* a plausible slip: each operand materialised with its own type as destination
load_registers_own(lhs, rhs) ==
    LET lt == lhs.dtype
        rt == rhs.dtype
    IN  Then(load_register(lt, lhs),
             LAMBDA l : { IF r.st = "crash" THEN Crashed ELSE Ok2(l.v, r.v, r.code)
                          : r \in load_register(rt, rhs) })

load_registers(lhs, rhs) ==
    LET lt == IF isImm(lhs) /\ ~isImm(rhs) THEN rhs.dtype ELSE lhs.dtype
        rt == IF isImm(lhs) /\ ~isImm(rhs) THEN rhs.dtype
              ELSE IF isImm(rhs) /\ ~isImm(lhs) THEN lhs.dtype
              ELSE rhs.dtype
    IN  Then(load_register(lt, lhs),
             LAMBDA l : { IF r.st = "crash" THEN Crashed ELSE Ok2(l.v, r.v, r.code)
                          : r \in load_register(rt, rhs) })

(***************************************************************************)
(* Operation dispatch: neg, bin_not, bin_and, bin_or, comparisons,         *)
(* arithmetic.  A primitive of impl/x86.h is named <<family, operation>>.  *)
(***************************************************************************)
\* Const only if both operands are Const
dst_kind(lhs, rhs) ==
    IF lhs.dkind = "kConst" /\ rhs.dkind = "kConst" THEN "kConst" ELSE "kMemory"

neg(lhs, null_check) ==
    LET dt == lhs.dtype
        dk == lhs.dkind
    IN  CASE dt \in Int32Class ->
                { Ok(Res("gpd", dt, dk, lhs), << P1(<<"int32", "neg">>, lhs, null_check) >>) }
          [] dt = "i64" ->
                { Ok(Res("gpq", dt, dk, lhs), << P1(<<"int64", "neg">>, lhs, null_check) >>) }
          [] dt = "f32" ->
                { Ok(Res("xmm", dt, dk, lhs), << P1(<<"float", "neg">>, lhs, FALSE) >>) }
          [] dt = "f64" ->
                { Ok(Res("xmm", dt, dk, lhs), << P1(<<"double", "neg">>, lhs, FALSE) >>) }
          [] OTHER -> Undefined(lhs)

bin_not(lhs) ==
    { Ok(Res("gpd", lhs.dtype, lhs.dkind, lhs), << P1(<<"int32", "not">>, lhs, FALSE) >>) }

bin_and(lhs, rhs) ==
    { Ok(Res("gpd", lhs.dtype, dst_kind(lhs, rhs), lhs),
         << P2(<<"int32", "and">>, lhs, rhs, FALSE) >>) }

bin_or(lhs, rhs) ==
    { Ok(Res("gpd", lhs.dtype, dst_kind(lhs, rhs), lhs),
         << P2(<<"int32", "or">>, lhs, rhs, FALSE) >>) }

\* cmp_eq (op = "eq") and cmp_ne (op = "ne"): the same switch
cmp_eqne(op, lhs, rhs) ==
    LET dt == lhs.dtype
        dk == dst_kind(lhs, rhs)
        eps == IF op = "eq" THEN "eq_epsilon" ELSE "ne_epsilon"
    IN  CASE dt \in Int32Class \cup {"string_header"} ->
                { Ok(Res("gpd", "i32", dk, lhs), << P2(<<"int32", op>>, lhs, rhs, FALSE) >>) }
          [] dt \in {"i64", "binary_header", "varchar_header"} ->
                { Ok(Res("gpd", "i32", dk, lhs), << P2(<<"int64", op>>, lhs, rhs, FALSE) >>) }
          [] dt = "i128" ->
                { Ok(Res("gpd", "i32", dk, lhs), << P2(<<"int128", op>>, lhs, rhs, FALSE) >>) }
          [] dt = "f32" ->
                { Ok(Res("gpd", "i32", dk, lhs), << P2(<<"float", eps>>, lhs, rhs, FALSE) >>) }
          [] dt = "f64" ->
                { Ok(Res("gpd", "i32", dk, lhs), << P2(<<"double", eps>>, lhs, rhs, FALSE) >>) }
          [] OTHER -> Undefined(lhs)

cmp_eq(lhs, rhs) == cmp_eqne("eq", lhs, rhs)
cmp_ne(lhs, rhs) == cmp_eqne("ne", lhs, rhs)

\* a plausible slip: the epsilon tests of the strict and the non-strict
\* comparisons exchanged
cmp_float_eps_swapped(fam, mv, op, lhs, rhs) ==
    LET dk == dst_kind(lhs, rhs)
        useAnd == op \in {"gt", "lt"}
        eps == IF useAnd THEN "eq_epsilon" ELSE "ne_epsilon"
        copies == << P1(<<"asm", mv>>, lhs, FALSE), P1(<<"asm", mv>>, rhs, FALSE) >>
        e == P2(<<fam, eps>>, lhs, rhs, FALSE)
        o == P2(<<fam, op>>, lhs, rhs, FALSE)
        a == Res("gpd", "i32", dk, lhs)
        b == Res("gpd", "i32", dk, lhs)
    IN  { [n EXCEPT !.code = copies \o order \o n.code]
          : n \in (IF useAnd THEN bin_and(a, b) ELSE bin_or(a, b)),
            order \in { <<e, o>>, <<o, e>> } }

\* a plausible slip: the two sub-results typed like the operands compared
cmp_float_typed(fam, mv, op, lhs, rhs) ==
    LET dk == dst_kind(lhs, rhs)
        useAnd == op \in {"gt", "lt"}
        eps == IF useAnd THEN "ne_epsilon" ELSE "eq_epsilon"
        copies == << P1(<<"asm", mv>>, lhs, FALSE), P1(<<"asm", mv>>, rhs, FALSE) >>
        e == P2(<<fam, eps>>, lhs, rhs, FALSE)
        o == P2(<<fam, op>>, lhs, rhs, FALSE)
        a == Res("gpd", lhs.dtype, dk, lhs)
        b == Res("gpd", lhs.dtype, dk, lhs)
    IN  { [n EXCEPT !.code = copies \o order \o n.code]
          : n \in (IF useAnd THEN bin_and(a, b) ELSE bin_or(a, b)),
            order \in { <<e, o>>, <<o, e>> } }

\* The float case of an ordered comparison: both operands are copied, then
\* bin_and / bin_or is called on the epsilon test of the operands and the
\* ordering primitive of the copies.  The two are arguments of one call, so
\* the order in which they are emitted is unspecified: both orders.
cmp_float(fam, mv, op, lhs, rhs) ==
    LET dk == dst_kind(lhs, rhs)
        useAnd == op \in {"gt", "lt"}
        eps == IF useAnd THEN "ne_epsilon" ELSE "eq_epsilon"
        copies == << P1(<<"asm", mv>>, lhs, FALSE), P1(<<"asm", mv>>, rhs, FALSE) >>
        e == P2(<<fam, eps>>, lhs, rhs, FALSE)
        o == P2(<<fam, op>>, lhs, rhs, FALSE)
        a == Res("gpd", "i32", dk, lhs)
        b == Res("gpd", "i32", dk, lhs)
    IN  { [n EXCEPT !.code = copies \o order \o n.code]
          : n \in (IF useAnd THEN bin_and(a, b) ELSE bin_or(a, b)),
            order \in { <<e, o>>, <<o, e>> } }

\* cmp_gt, cmp_ge, cmp_lt, cmp_le: the same switch
cmp_ord(op, lhs, rhs, null_check) ==
    LET dt == lhs.dtype
        dk == dst_kind(lhs, rhs)
    IN  CASE dt \in Int32Class ->
                { Ok(Res("gpd", "i32", dk, lhs), << P2(<<"int32", op>>, lhs, rhs, null_check) >>) }
          [] dt = "i64" ->
                { Ok(Res("gpd", "i32", dk, lhs), << P2(<<"int64", op>>, lhs, rhs, null_check) >>) }
          [] dt = "f32" -> cmp_float("float", "movss", op, lhs, rhs)
          [] dt = "f64" -> cmp_float("double", "movsd", op, lhs, rhs)
          [] OTHER -> Undefined(lhs)

cmp_gt(lhs, rhs, null_check) == cmp_ord("gt", lhs, rhs, null_check)
cmp_ge(lhs, rhs, null_check) == cmp_ord("ge", lhs, rhs, null_check)
cmp_lt(lhs, rhs, null_check) == cmp_ord("lt", lhs, rhs, null_check)
cmp_le(lhs, rhs, null_check) == cmp_ord("le", lhs, rhs, null_check)

\* add, sub, mul, div: the same switch
arith(op, lhs, rhs, null_check) ==
    LET dt == lhs.dtype
        dk == dst_kind(lhs, rhs)
    IN  CASE dt \in Int32Class ->
                { Ok(Res("gpd", dt, dk, lhs), << P2(<<"int32", op>>, lhs, rhs, null_check) >>) }
          [] dt = "i64" ->
                { Ok(Res("gpq", dt, dk, lhs), << P2(<<"int64", op>>, lhs, rhs, null_check) >>) }
          [] dt = "f32" ->
                { Ok(Res("xmm", dt, dk, lhs), << P2(<<"float", op>>, lhs, rhs, FALSE) >>) }
          [] dt = "f64" ->
                { Ok(Res("xmm", dt, dk, lhs), << P2(<<"double", op>>, lhs, rhs, FALSE) >>) }
          [] OTHER -> Undefined(lhs)

add(lhs, rhs, null_check) == arith("add", lhs, rhs, null_check)
sub(lhs, rhs, null_check) == arith("sub", lhs, rhs, null_check)
mul(lhs, rhs, null_check) == arith("mul", lhs, rhs, null_check)
div(lhs, rhs, null_check) == arith("div", lhs, rhs, null_check)

(***************************************************************************)
(* Type promotion: convert.                                                *)
(***************************************************************************)
\* a plausible slip: an i64 paired with an f32 converted to float, the f32
\* operand left as it is
widen_i64_f32_narrow(i64v, f32v, null_check, int_first) ==
    [i |-> Res("xmm", "f32", i64v.dkind, i64v), f |-> f32v,
     code |-> << P1(<<"cvt", "int64_to_float">>, i64v, null_check) >>]

\* the i64 / f32 cases of convert: both operands become f64
widen_i64_f32(i64v, f32v, null_check, int_first) ==
    LET ci == << P1(<<"cvt", "int64_to_double">>, i64v, null_check) >>
        cf == << P1(<<"cvt", "float_to_double">>, f32v, FALSE) >>
    IN  [i |-> Res("xmm", "f64", i64v.dkind, i64v),
         f |-> Res("xmm", "f64", f32v.dkind, f32v),
         code |-> IF int_first THEN ci \o cf ELSE cf \o ci]

cvt_null_check(type) == ~(type = "i8" \/ type = "i16")

\* a plausible slip: every conversion taken to give a double
CvtWidest(name, o, t, v, nc) ==
    [val |-> Res(o, "f64", v.dkind, v), code |-> << P1(<<"cvt", name>>, v, nc) >>]

\* a plausible slip: the converted operand keeps the type it had
CvtKeepsType(name, o, t, v, nc) ==
    [val |-> Res(o, v.dtype, v.dkind, v), code |-> << P1(<<"cvt", name>>, v, nc) >>]

\* one conversion primitive applied to v, giving a register of class o typed t
Cvt(name, o, t, v, nc) == [val |-> Res(o, t, v.dkind, v), code |-> << P1(<<"cvt", name>>, v, nc) >>]

convert(lhs, rhs, null_check) ==
    LET lt == lhs.dtype
        rt == rhs.dtype
        L(c) == { Ok2(c.val, rhs, c.code) }
        R(c) == { Ok2(lhs, c.val, c.code) }
        \* (in the i64 / f32 cases both operands are converted; the two
        \* conversions are arguments of one make_pair call, emitted in either order)
        Same == { Ok2(lhs, rhs, <<>>) }
    IN  CASE lt \in Int32Class ->
                ( CASE rt \in Int32Class -> Same
                    [] rt = "i64" ->
                        L(Cvt("int32_to_int64", "gpq", "i64", lhs, null_check /\ cvt_null_check(lt)))
                    [] rt = "f32" ->
                        L(Cvt("int32_to_float", "xmm", "f32", lhs, null_check /\ cvt_null_check(lt)))
                    [] rt = "f64" ->
                        L(Cvt("int32_to_double", "xmm", "f64", lhs, null_check /\ cvt_null_check(lt)))
                    [] OTHER -> Undefined(lhs) )
          [] lt = "i64" ->
                ( CASE rt \in Int32Class ->
                        R(Cvt("int32_to_int64", "gpq", "i64", rhs, null_check /\ cvt_null_check(rt)))
                    [] rt = "i64" -> Same
                    [] rt = "f32" ->
                        { Ok2(x.i, x.f, x.code)
                          : x \in { widen_i64_f32(lhs, rhs, null_check, b) : b \in BOOLEAN } }
                    [] rt = "f64" ->
                        L(Cvt("int64_to_double", "xmm", "f64", lhs, null_check))
                    [] OTHER -> Undefined(lhs) )
          [] lt = "f32" ->
                ( CASE rt \in Int32Class ->
                        R(Cvt("int32_to_float", "xmm", "f32", rhs, null_check /\ cvt_null_check(rt)))
                    [] rt = "i64" ->
                        { Ok2(x.f, x.i, x.code)
                          : x \in { widen_i64_f32(rhs, lhs, null_check, b) : b \in BOOLEAN } }
                    [] rt = "f32" -> Same
                    [] rt = "f64" ->
                        L(Cvt("float_to_double", "xmm", "f64", lhs, FALSE))
                    [] OTHER -> Undefined(lhs) )
          [] lt = "f64" ->
                ( CASE rt \in Int32Class ->
                        R(Cvt("int32_to_double", "xmm", "f64", rhs, null_check /\ cvt_null_check(rt)))
                    [] rt = "i64" ->
                        R(Cvt("int64_to_double", "xmm", "f64", rhs, null_check))
                    [] rt = "f32" ->
                        R(Cvt("float_to_double", "xmm", "f64", rhs, FALSE))
                    [] rt = "f64" -> Same
                    [] OTHER -> Undefined(lhs) )
          [] lt \in {"i128"} \cup HeaderTypes -> Same
          [] OTHER -> Undefined(lhs)

(***************************************************************************)
(* The evaluation stack (ZoneStack<jit_value_t>) and the instruction       *)
(* stream.                                                                 *)
(***************************************************************************)
\* values.append(v)
Push(vals, v) == Append(vals, [v EXCEPT !.slot = Len(vals) + 1])

\* values.pop(); on an empty stack the behaviour is undefined
Pop(vals) ==
    IF vals = <<>>
    THEN Undefined(NoValue)
    ELSE { [Ok(vals[Len(vals)], <<>>) EXCEPT !.vals = SubSeq(vals, 1, Len(vals) - 1)] }

\* a plausible slip: the operand read from the top of the stack but left there
get_argument_peek(vals) ==
    Then(Pop(vals),
         LAMBDA a : { [r EXCEPT !.vals = vals] : r \in load_register(a.v.dtype, a.v) })

get_argument(vals) ==
    Then(Pop(vals),
         LAMBDA a : { [r EXCEPT !.vals = a.vals] : r \in load_register(a.v.dtype, a.v) })

\* load_registers, then convert on what it returned (the tail of get_arguments)
load_convert(lhs, rhs, null_check) ==
    Then(load_registers(lhs, rhs), LAMBDA args : convert(args.v, args.w, null_check))

\* a plausible slip: the operand popped first taken as the right-hand one
get_arguments_swapped(vals, null_check) ==
    Then(Pop(vals), LAMBDA a :
      Then({ [b EXCEPT !.w = a.v] : b \in Pop(a.vals) }, LAMBDA b :
        LET rhs == b.w
            lhs == b.v
        IN  { [x EXCEPT !.vals = b.vals] : x \in load_convert(lhs, rhs, null_check) }))

get_arguments(vals, null_check) ==
    Then(Pop(vals), LAMBDA a :
      Then({ [b EXCEPT !.w = a.v] : b \in Pop(a.vals) }, LAMBDA b :
        LET lhs == b.w
            rhs == b.v
        IN  { [x EXCEPT !.vals = b.vals] : x \in load_convert(lhs, rhs, null_check) }))

UnaryOps == {"Neg", "Not"}
BinaryOps == {"And", "Or", "Eq", "Ne", "Gt", "Ge", "Lt", "Le", "Add", "Sub", "Mul", "Div"}
LeafOps == {"Var", "Mem", "Imm"}
TerminalOps == {"Inv", "Ret"}

emit_bin_op(instr, vals, null_check) ==
    Then(get_arguments(vals, null_check), LAMBDA args :
      LET lhs == args.v
          rhs == args.w
          op == instr.opcode
          res == CASE op = "And" -> bin_and(lhs, rhs)
                   [] op = "Or" -> bin_or(lhs, rhs)
                   [] op = "Eq" -> cmp_eq(lhs, rhs)
                   [] op = "Ne" -> cmp_ne(lhs, rhs)
                   [] op = "Gt" -> cmp_gt(lhs, rhs, null_check)
                   [] op = "Ge" -> cmp_ge(lhs, rhs, null_check)
                   [] op = "Lt" -> cmp_lt(lhs, rhs, null_check)
                   [] op = "Le" -> cmp_le(lhs, rhs, null_check)
                   [] op = "Add" -> add(lhs, rhs, null_check)
                   [] op = "Sub" -> sub(lhs, rhs, null_check)
                   [] op = "Mul" -> mul(lhs, rhs, null_check)
                   [] op = "Div" -> div(lhs, rhs, null_check)
                   [] OTHER -> Undefined(lhs)
      IN  { [r EXCEPT !.vals = Push(args.vals, r.v)] : r \in res })

\* one iteration of the loop of emit_code on a non-terminal instruction
emit_instr(instr, vals, null_check) ==
    LET op == instr.opcode
        push(S) == { IF r.st = "crash" THEN Crashed ELSE [r EXCEPT !.vals = Push(vals, r.v)] : r \in S }
    IN  CASE op = "Var" -> push(read_vars_mem(instr.options))
          [] op = "Mem" -> push(read_mem(instr.options))
          [] op = "Imm" -> push(read_imm(instr))
          [] op = "Neg" ->
                Then(get_argument(vals), LAMBDA a :
                    { [r EXCEPT !.vals = Push(a.vals, r.v)] : r \in neg(a.v, null_check) })
          [] op = "Not" ->
                Then(get_argument(vals), LAMBDA a :
                    { [r EXCEPT !.vals = Push(a.vals, r.v)] : r \in bin_not(a.v) })
          [] OTHER -> emit_bin_op(instr, vals, null_check)

\* instruction_t: opcode, options (the type tag) and the payload, read as
\* ipayload.lo (ilo) or as dpayload (d)
Instr(op, t, n, x) == [opcode |-> op, options |-> t, ilo |-> n, d |-> x]
NoInstr == Instr("none", "none", IZero, DZero)

\* type tags of the leaves of the streams walked: one type of every tier, the
\* 128-bit type and a header type
LeafTypes == {"i32", "i64", "f64", "i128", "string_header"}
\* integer literals: 5 (fits int32_t) and 2^31 (does not)
ImmInts == {I64(0, 5), I64(1, 0)}
\* double literals: 2.0 (fits float) and 1e39 (does not)
ImmDoubles == {[m |-> 2, e |-> 0], [m |-> 1, e |-> 39]}

LeafInstrs ==
    { Instr(op, t, IZero, DZero) : op \in {"Var", "Mem"}, t \in LeafTypes }
    \cup { Instr("Imm", t, n, DZero) : t \in LeafTypes \cap {"i8", "i16", "i32", "i64"}, n \in ImmInts }
    \cup { Instr("Imm", t, IZero, x) : t \in LeafTypes \cap {"f32", "f64"}, x \in ImmDoubles }
    \cup { Instr("Imm", t, IZero, DZero) : t \in LeafTypes \cap ({"i128"} \cup HeaderTypes) }
OpInstr(op) == Instr(op, "none", IZero, DZero)

(***************************************************************************)
(* The walker emit_code as a state machine: one step per loop iteration.   *)
(* The stream is read as the loop reaches it: each iteration draws         *)
(* istream[i], and the stream ends (i == size) wherever LoopEnd is taken,  *)
(* so every stream of at most MaxSize instructions is walked.              *)
(***************************************************************************)
VARIABLES
    i,           \* loop index of emit_code
    instr,       \* istream[i] of the iteration last run (NoInstr: none yet)
    values,      \* the evaluation stack
    emitted,     \* what the iteration last run emitted
    null_check,  \* the null_check argument
    pc,          \* "run": in the loop, "returned": emit_code returned,
                 \* "crashed": the process died of undefined behaviour
    err          \* the error reported to the caller ("none": emit_code is void
                 \* and throws nothing)

\* load_registers + convert on one pair of operands (specifications SpecPair
\* and SpecLoad)
VARIABLE
    pair         \* st: "idle", "in" (operands chosen), "loaded" (load_registers
                 \* returned), "out" (converted pair returned), "again"
                 \* (converted a second time), "res" (an arithmetic operation
                 \* applied) or "crashed"; lhs, rhs: the operands; nc: the
                 \* null_check argument; l, r, code: what the last step returned
                 \* and emitted; res: the result of the operation; prev: when
                 \* an operand is the result of an earlier operation, the
                 \* declared types a, b of that operation's operands and the
                 \* slot the result is at

\* the code read_mem_varsize generates, run on one row (specification SpecVs)
VARIABLE
    vs           \* pc: position in the generated code; header_size, aux (the
                 \* offsets vector), data (the data vector, bytes), row
                 \* (input_index): the inputs; offset, length: the registers;
                 \* loads: loads from the data vector; result, rtype: the
                 \* operand the generated code leaves and its data type

\* the code cmp_gt .. cmp_le generate for f32 / f64 operands, run on one pair
\* of values (specification SpecFc)
VARIABLE
    fc           \* pc: position in the generated code (0: not running); op:
                 \* the comparison; code: the generated code; x, y: the values
                 \* of lhs and rhs; reg: what the registers lhs, rhs and the
                 \* copies l, r hold; e, o: what the epsilon and the ordering
                 \* primitive returned; oin: what the ordering primitive read;
                 \* result: what bin_and / bin_or left

wvars == <<i, instr, values, emitted, null_check, pc, err>>

WalkInit ==
    /\ i = 0
    /\ instr = NoInstr
    /\ values = <<>>
    /\ emitted = <<>>
    /\ null_check \in BOOLEAN
    /\ pc = "run"
    /\ err = "none"

\* the body of the loop on instruction ins
Iterate(ins) ==
    /\ pc = "run"
    /\ i < MaxSize
    /\ instr' = ins
    /\ \E o \in emit_instr(ins, values, null_check) :
          IF o.st = "crash"
          THEN /\ pc' = "crashed"
               /\ UNCHANGED <<i, values>>
               /\ emitted' = <<>>
          ELSE /\ pc' = "run"
               /\ i' = i + 1
               /\ values' = o.vals
               /\ emitted' = o.code
    /\ UNCHANGED <<null_check, err, pair, vs, fc>>

\* case Var / Mem / Imm
Leaf ==
    /\ Len(values) < MaxDepth
    /\ \E ins \in LeafInstrs : Iterate(ins)

\* leaves of the streams of specification SpecTypes: a column read of every
\* type that has a storage width, and one integer and one float literal
TypedLeafInstrs ==
    { Instr("Mem", t, IZero, DZero) : t \in NumericTypes \cup {"i128"} }
    \cup { Instr("Imm", "i64", I64(0, 5), DZero), Instr("Imm", "f32", IZero, [m |-> 2, e |-> 0]) }

\* case Mem / Imm, on the leaves of SpecTypes
TypedLeaf ==
    /\ Len(values) < MaxDepth
    /\ \E ins \in TypedLeafInstrs : Iterate(ins)

\* case Neg / Not
Unary ==
    /\ pc = "run"
    /\ \E op \in UnaryOps : Iterate(OpInstr(op))

\* default: emit_bin_op
Binary ==
    /\ pc = "run"
    /\ \E op \in BinaryOps : Iterate(OpInstr(op))

\* a plausible slip: Inv reported as an error instead of returning silently
TerminalInvReported ==
    /\ pc = "run"
    /\ i < MaxSize
    /\ \E op \in TerminalOps :
          /\ instr' = OpInstr(op)
          /\ err' = IF op = "Inv" THEN "InvalidInstruction" ELSE err
    /\ pc' = "returned"
    /\ emitted' = <<>>
    /\ UNCHANGED <<i, values, null_check, pair, vs, fc>>

\* case Inv / Ret: return
Terminal ==
    /\ pc = "run"
    /\ i < MaxSize
    /\ \E op \in TerminalOps : instr' = OpInstr(op)
    /\ pc' = "returned"
    /\ emitted' = <<>>
    /\ UNCHANGED <<i, values, null_check, err, pair, vs, fc>>

\* i == size: the loop ends and emit_code returns
LoopEnd ==
    /\ pc = "run"
    /\ i <= MaxSize
    /\ pc' = "returned"
    /\ emitted' = <<>>
    /\ UNCHANGED <<i, instr, values, null_check, err, pair, vs, fc>>

\* emit_code is not running
WalkIdle ==
    /\ i = 0
    /\ instr = NoInstr
    /\ values = <<>>
    /\ emitted = <<>>
    /\ null_check = FALSE
    /\ pc = "idle"
    /\ err = "none"

(***************************************************************************)
(* load_registers followed by convert, applied to one pair of operands.    *)
(***************************************************************************)
\* no earlier operation: the operands are not the result of one
NoPrev == [a |-> "none", b |-> "none", at |-> 0]

PairIdle ==
    [st |-> "idle", lhs |-> NoValue, rhs |-> NoValue, nc |-> FALSE,
     l |-> NoValue, r |-> NoValue, code |-> <<>>, res |-> NoValue, prev |-> NoPrev]

\* the register class a value of numeric type t lives in
RegOf(t) == IF t \in Int32Class THEN "gpd" ELSE IF t = "i64" THEN "gpq" ELSE "xmm"
\* integer literals at and around the int32_t limits
PairInts == {I64(0, 5), I64(-1, 0), I64(0, 2147483647), I64(1, 0), I64(-2, 2147483647)}
\* double literals: 2.0, 0.0, -2.0, 1e39
PairDoubles == {[m |-> 2, e |-> 0], DZero, [m |-> -2, e |-> 0], [m |-> 1, e |-> 39]}

\* the operands of numeric type: immediates as read_imm makes them, memory
\* operands as read_vars_mem / read_mem make them, registers as the
\* operations return them
ImmOperands ==
    { JV("imm", t, "kConst", ImmInt(n)) : t \in {"i8", "i16", "i32", "i64"}, n \in PairInts }
    \cup { JV("imm", t, "kConst", ImmDouble(x)) : t \in {"f32", "f64"}, x \in PairDoubles }
MemOperands == { JV("mem", t, "kMemory", NoImm) : t \in NumericTypes }
RegOperands == { JV(RegOf(t), t, dk, NoImm) : t \in NumericTypes, dk \in {"kMemory", "kConst"} }
PairOperands == ImmOperands \cup MemOperands \cup RegOperands

PairInit ==
    \E a \in PairOperands, b \in PairOperands, n \in BOOLEAN :
        pair = [PairIdle EXCEPT !.st = "in", !.nc = n,
                                !.lhs = [a EXCEPT !.slot = 2],
                                !.rhs = [b EXCEPT !.slot = 1]]

\* auto args = load_registers(c, lhs, rhs); return convert(c, args.first, args.second, null_check)
PairApply ==
    /\ pair.st = "in"
    /\ \E o \in load_convert(pair.lhs, pair.rhs, pair.nc) :
          pair' = IF o.st = "crash"
                  THEN [pair EXCEPT !.st = "crashed"]
                  ELSE [pair EXCEPT !.st = "out", !.l = o.v, !.r = o.w, !.code = o.code]
    /\ UNCHANGED <<wvars, vs, fc>>

(***************************************************************************)
(* The same, step by step (specification SpecLoad): load_registers, then   *)
(* convert, then either convert once more on the pair returned or an       *)
(* arithmetic operation whose result meets a column value in a second      *)
(* operation.                                                              *)
(***************************************************************************)
\* the operands of SpecLoad: the numeric ones and the 128-bit ones, a memory
\* operand as read_mem / read_imm make it and a register as mem2reg makes it
WideOperands == { JV("mem", "i128", "kMemory", NoImm), JV("xmm", "i128", "kMemory", NoImm) }
LoadOperands == PairOperands \cup WideOperands

LoadInit ==
    \E a \in LoadOperands, b \in LoadOperands, n \in BOOLEAN :
        pair = [PairIdle EXCEPT !.st = "in", !.nc = n,
                                !.lhs = [a EXCEPT !.slot = 2],
                                !.rhs = [b EXCEPT !.slot = 1]]

\* auto args = load_registers(c, lhs, rhs)
PairLoad ==
    /\ pair.st = "in"
    /\ \E o \in load_registers(pair.lhs, pair.rhs) :
          pair' = IF o.st = "crash"
                  THEN [pair EXCEPT !.st = "crashed"]
                  ELSE [pair EXCEPT !.st = "loaded", !.l = o.v, !.r = o.w, !.code = o.code]
    /\ UNCHANGED <<wvars, vs, fc>>

\* return convert(c, args.first, args.second, null_check)
PairConvert ==
    /\ pair.st = "loaded"
    /\ \E o \in convert(pair.l, pair.r, pair.nc) :
          pair' = IF o.st = "crash"
                  THEN [pair EXCEPT !.st = "crashed"]
                  ELSE [pair EXCEPT !.st = "out", !.l = o.v, !.r = o.w, !.code = o.code]
    /\ UNCHANGED <<wvars, vs, fc>>

\* convert applied to the pair convert returned
PairReconvert ==
    /\ pair.st = "out"
    /\ \E o \in convert(pair.l, pair.r, pair.nc) :
          pair' = IF o.st = "crash"
                  THEN [pair EXCEPT !.st = "crashed"]
                  ELSE [pair EXCEPT !.st = "again", !.l = o.v, !.r = o.w, !.code = o.code]
    /\ UNCHANGED <<wvars, vs, fc>>

\* emit_bin_op, case Add / Sub / Mul / Div, on the pair get_arguments returned
PairArith ==
    /\ pair.st = "out"
    /\ pair.prev = NoPrev
    /\ \E op \in {"add", "sub", "mul", "div"} :
          \E o \in arith(op, pair.l, pair.r, pair.nc) :
              pair' = IF o.st = "crash"
                      THEN [pair EXCEPT !.st = "crashed"]
                      ELSE [pair EXCEPT !.st = "res", !.res = o.v, !.code = o.code]
    /\ UNCHANGED <<wvars, vs, fc>>

\* values.append(result); a Mem leaf; the next binary opcode pops the two:
\* the result is its lhs or its rhs according to the order they were pushed in
PairChain ==
    /\ pair.st = "res"
    /\ \E sib \in MemOperands, at \in {1, 2} :
          LET first == [(IF at = 2 THEN pair.res ELSE sib) EXCEPT !.slot = 2]
              second == [(IF at = 2 THEN sib ELSE pair.res) EXCEPT !.slot = 1]
          IN  pair' = [PairIdle EXCEPT !.st = "in", !.nc = pair.nc,
                                       !.lhs = first, !.rhs = second,
                                       !.prev = [a |-> pair.lhs.dtype, b |-> pair.rhs.dtype,
                                                 at |-> at]]
    /\ UNCHANGED <<wvars, vs, fc>>

(***************************************************************************)
(* The code read_mem_varsize generates, run on one row of a string or      *)
(* binary column.  A register holds its bytes, least significant first.    *)
(***************************************************************************)
\* the low n bytes of the two's complement of x, |x| < 2^31, sign-extended
Bytes(x, n) ==
    [k \in 1..n |-> IF k <= 4 THEN (x \div (256 ^ (k - 1))) % 256
                              ELSE IF x < 0 THEN 255 ELSE 0]

\* the value of a register whose upper bytes extend the sign of its low four
Val(b) ==
    b[1] + 256 * b[2] + 65536 * b[3]
    + 16777216 * (IF b[4] >= 128 THEN b[4] - 256 ELSE b[4])

\* ptr(base, offset, 0, 0, n): the n bytes at base + offset
Load(mem, offset, n) == [k \in 1..n |-> mem[offset + k]]

VsIdle ==
    [pc |-> "idle", header_size |-> 0, aux |-> <<>>, data |-> <<>>, row |-> 0,
     offset |-> <<>>, length |-> <<>>, loads |-> 0, result |-> <<>>, rtype |-> "none"]

\* offsets of the vectors drawn
OffsetVals == {0, 4, 8, 10, 12}
\* header words of the data vector: 0 (empty) and 0xFFFFFFFF (null)
HeaderWords == { <<0, 0, 0, 0>>, <<255, 255, 255, 255>> }
\* rows of the column
VsRows == 3

RECURSIVE Concat(_)
Concat(ws) == IF ws = <<>> THEN <<>> ELSE ws[1] \o Concat(Tail(ws))

DataVectors == { Concat(ws) : ws \in [1..DataWords -> HeaderWords] }
AuxVectors ==
    { a \in [1..(VsRows + 1) -> OffsetVals] :
        /\ \A k \in 1..VsRows : a[k] <= a[k + 1]
        /\ a[VsRows + 1] + 8 <= 4 * DataWords }

VsInit ==
    \E hs \in {4, 8}, a \in AuxVectors, d \in DataVectors, row \in 0..(VsRows - 1) :
        vs = [VsIdle EXCEPT !.pc = "start", !.header_size = hs, !.aux = a,
                            !.data = d, !.row = row]

\* a plausible slip: next_input_index not incremented
VsLoadOffsetsNoInc ==
    /\ vs.pc = "start"
    /\ LET next_input_index == vs.row
       IN  vs' = [vs EXCEPT !.pc = "sub",
                            !.offset = Bytes(vs.aux[vs.row + 1], 8),
                            !.length = Bytes(vs.aux[next_input_index + 1], 8)]
    /\ UNCHANGED <<wvars, pair, fc>>

\* mov next_input_index, input_index; inc; mov offset, [aux + 8 * input_index];
\* mov length, [aux + 8 * next_input_index]
VsLoadOffsets ==
    /\ vs.pc = "start"
    /\ LET next_input_index == vs.row + 1
       IN  vs' = [vs EXCEPT !.pc = "sub",
                            !.offset = Bytes(vs.aux[vs.row + 1], 8),
                            !.length = Bytes(vs.aux[next_input_index + 1], 8)]
    /\ UNCHANGED <<wvars, pair, fc>>

\* a plausible slip: the header size not subtracted
VsSubNoHeader ==
    /\ vs.pc = "sub"
    /\ vs' = [vs EXCEPT !.pc = "jnz",
                        !.length = Bytes(Val(vs.length) - Val(vs.offset), 8)]
    /\ UNCHANGED <<wvars, pair, fc>>

\* sub length, offset; sub length, header_size
VsSub ==
    /\ vs.pc = "sub"
    /\ vs' = [vs EXCEPT !.pc = "jnz",
                        !.length = Bytes((Val(vs.length) - Val(vs.offset)) - vs.header_size, 8)]
    /\ UNCHANGED <<wvars, pair, fc>>

\* jnz l_nonzero, on the zero flag of the last sub
VsJnz ==
    /\ vs.pc = "jnz"
    /\ vs' = [vs EXCEPT !.pc = IF vs.length # Bytes(0, 8) THEN "l_nonzero" ELSE "header"]
    /\ UNCHANGED <<wvars, pair, fc>>

\* mov column_address, [data_ptr + 8 * column_idx];
\* mov length, [column_address + offset], a Mem of header_size bytes (what
\* the rest of the 64-bit register holds when header_size is 4 is left out:
\* only length.r32() is used then)
VsLoadHeader ==
    /\ vs.pc = "header"
    /\ vs' = [vs EXCEPT !.pc = "l_nonzero",
                        !.loads = vs.loads + 1,
                        !.length = Load(vs.data, Val(vs.offset), vs.header_size)]
    /\ UNCHANGED <<wvars, pair, fc>>

\* l_nonzero: the operand returned is length.r32() typed i32 when header_size
\* is 4, length typed i64 otherwise
VsReturn ==
    /\ vs.pc = "l_nonzero"
    /\ vs' = IF vs.header_size = 4
             THEN [vs EXCEPT !.pc = "done", !.result = SubSeq(vs.length, 1, 4), !.rtype = "i32"]
             ELSE [vs EXCEPT !.pc = "done", !.result = vs.length, !.rtype = "i64"]
    /\ UNCHANGED <<wvars, pair, fc>>

(***************************************************************************)
(* The code cmp_gt, cmp_ge, cmp_lt and cmp_le generate for two f32 or f64  *)
(* registers, run on one pair of values.  Values are counted in units of   *)
(* the epsilon; a primitive works in place: it leaves its operand          *)
(* registers clobbered.                                                    *)
(***************************************************************************)
\* largest value compared
FcMax == 3
\* what a register holds before it is written and after it is clobbered
Junk == -1

FcIdle ==
    [pc |-> 0, op |-> "none", code |-> <<>>, x |-> 0, y |-> 0,
     reg |-> [lhs |-> Junk, rhs |-> Junk, l |-> Junk, r |-> Junk],
     e |-> Junk, o |-> Junk, oin |-> <<>>, result |-> Junk]

OrderedOps == {"gt", "ge", "lt", "le"}

FcInit ==
    \E op \in OrderedOps, t \in {"f32", "f64"}, x \in 0..FcMax, y \in 0..FcMax :
        \E c \in cmp_ord(op, [JV("xmm", t, "kMemory", NoImm) EXCEPT !.slot = 2],
                             [JV("xmm", t, "kMemory", NoImm) EXCEPT !.slot = 1], FALSE) :
            fc = [FcIdle EXCEPT !.pc = 1, !.op = op, !.code = c.code, !.x = x, !.y = y,
                                !.reg = [lhs |-> x, rhs |-> y, l |-> Junk, r |-> Junk]]

\* the instruction the generated code is at
FcAt == fc.code[fc.pc]
FcRunning == fc.pc >= 1 /\ fc.pc <= Len(fc.code)

\* epsilon-equal, on values in units of the epsilon
WithinEpsilon(a, b) == a - b <= 1 /\ b - a <= 1

\* what a primitive makes of operands a, b: the outcomes of test if both are
\* values, anything if one is junk
PrimResult(a, b, test) ==
    IF a = Junk \/ b = Junk THEN {0, 1} ELSE IF test THEN {1} ELSE {0}

\* movss / movsd l, lhs.xmm() and movss / movsd r, rhs.xmm()
FcCopy ==
    /\ FcRunning
    /\ FcAt.prim[1] = "asm"
    /\ fc' = [fc EXCEPT !.pc = fc.pc + 1,
                        !.reg = IF FcAt.l = 2 THEN [fc.reg EXCEPT !.l = fc.reg.lhs]
                                              ELSE [fc.reg EXCEPT !.r = fc.reg.rhs]]
    /\ UNCHANGED <<wvars, pair, vs>>

\* float_eq_epsilon / float_ne_epsilon / double_eq_epsilon / double_ne_epsilon
\* on lhs.xmm(), rhs.xmm()
FcEpsilon ==
    /\ FcRunning
    /\ FcAt.prim[2] \in {"eq_epsilon", "ne_epsilon"}
    /\ \E b \in PrimResult(fc.reg.lhs, fc.reg.rhs,
                           (FcAt.prim[2] = "eq_epsilon") = WithinEpsilon(fc.reg.lhs, fc.reg.rhs)) :
          fc' = [fc EXCEPT !.pc = fc.pc + 1, !.e = b,
                           !.reg = [fc.reg EXCEPT !.lhs = Junk, !.rhs = Junk]]
    /\ UNCHANGED <<wvars, pair, vs>>

\* float_gt / float_ge / float_lt / float_le (double_...) on the copies l, r
FcOrder ==
    /\ FcRunning
    /\ FcAt.prim[1] \in {"float", "double"}
    /\ FcAt.prim[2] \in OrderedOps
    /\ LET a == fc.reg.l
           b == fc.reg.r
           test == CASE FcAt.prim[2] = "gt" -> a > b
                     [] FcAt.prim[2] = "ge" -> a >= b
                     [] FcAt.prim[2] = "lt" -> a < b
                     [] OTHER -> a <= b
       IN  \E t \in PrimResult(a, b, test) :
              fc' = [fc EXCEPT !.pc = fc.pc + 1, !.o = t, !.oin = <<a, b>>,
                               !.reg = [fc.reg EXCEPT !.l = Junk, !.r = Junk]]
    /\ UNCHANGED <<wvars, pair, vs>>

\* int32_and / int32_or on the two sub-results
FcCombine ==
    /\ FcRunning
    /\ FcAt.prim[1] = "int32"
    /\ fc' = [fc EXCEPT !.pc = fc.pc + 1,
                        !.result = IF FcAt.prim[2] = "and"
                                   THEN (IF fc.e = 1 /\ fc.o = 1 THEN 1 ELSE 0)
                                   ELSE (IF fc.e = 1 \/ fc.o = 1 THEN 1 ELSE 0)]
    /\ UNCHANGED <<wvars, pair, vs>>

(***************************************************************************)
(* Specifications.                                                         *)
(***************************************************************************)
vars == <<wvars, pair, vs, fc>>

\* emit_code on every stream
Init == WalkInit /\ pair = PairIdle /\ vs = VsIdle /\ fc = FcIdle
Next == Leaf \/ Unary \/ Binary \/ Terminal \/ LoopEnd
Spec == Init /\ [][Next]_vars

\* emit_code on every stream over the leaves TypedLeafInstrs
NextTypes == TypedLeaf \/ Unary \/ Binary \/ Terminal \/ LoopEnd
SpecTypes == Init /\ [][NextTypes]_vars

\* load_registers and convert on every pair of numeric operands
InitPair == WalkIdle /\ PairInit /\ vs = VsIdle /\ fc = FcIdle
NextPair == PairApply
SpecPair == InitPair /\ [][NextPair]_vars

\* load_registers, convert, convert again, and two chained operations
InitLoad == WalkIdle /\ LoadInit /\ vs = VsIdle /\ fc = FcIdle
NextLoad == PairLoad \/ PairConvert \/ PairReconvert \/ PairArith \/ PairChain
SpecLoad == InitLoad /\ [][NextLoad]_vars

\* the code of a float ordered comparison on every pair of values
InitFc == WalkIdle /\ pair = PairIdle /\ vs = VsIdle /\ FcInit
NextFc == FcCopy \/ FcEpsilon \/ FcOrder \/ FcCombine
SpecFc == InitFc /\ [][NextFc]_vars

\* the code of read_mem_varsize on every row
InitVs == WalkIdle /\ pair = PairIdle /\ VsInit /\ fc = FcIdle
NextVs == VsLoadOffsets \/ VsSub \/ VsJnz \/ VsLoadHeader \/ VsReturn
SpecVs == InitVs /\ [][NextVs]_vars

(***************************************************************************)
(* Properties of the walker (specification Spec).                          *)
(***************************************************************************)
\* operands an opcode pops
Pops(op) == IF op \in BinaryOps THEN 2 ELSE IF op \in UnaryOps THEN 1 ELSE 0

\* the operation part of the primitive a binary opcode dispatches to
OpName(op) ==
    CASE op = "Sub" -> "sub" [] op = "Div" -> "div" [] op = "Gt" -> "gt"
      [] op = "Ge" -> "ge" [] op = "Lt" -> "lt" [] op = "Le" -> "le"
      [] op = "Add" -> "add" [] op = "Mul" -> "mul" [] op = "Eq" -> "eq"
      [] op = "Ne" -> "ne" [] op = "And" -> "and" [] OTHER -> "or"
NonCommutative == {"Sub", "Div", "Gt", "Ge", "Lt", "Le"}
TypedFamilies == {"int32", "int64", "float", "double"}

\* the primitives of the non-commutative opcode last processed whose two
\* operands both came from the stack
OrderedPrims ==
    { k \in 1..Len(emitted) :
        /\ pc = "run"
        /\ instr.opcode \in NonCommutative
        /\ emitted[k].prim = <<emitted[k].prim[1], OpName(instr.opcode)>>
        /\ emitted[k].prim[1] \in TypedFamilies
        /\ emitted[k].l # 0 /\ emitted[k].r # 0 }

\* After a binary instruction the result sits at slot Len(values): the
\* operand popped first came from slot Len(values) + 1, the one popped
\* second from slot Len(values).

\* C1 as amended: for Sub, Div, Gt, Ge, Lt, Le the operand popped first is the
\* LEFT operand of the emitted primitive and the operand popped second the
\* right one, so 'push A, push B, op' emits op(B, A).
C1_FirstPoppedIsLeft ==
    \A k \in OrderedPrims :
        emitted[k].l = Len(values) + 1 /\ emitted[k].r = Len(values)

\* C1 as stated: the operand popped first is the right-hand operand and the
\* operand popped second the left-hand one ('push A, push B, op' emits op(A, B)).
C1_FirstPoppedIsRight ==
    \A k \in OrderedPrims :
        emitted[k].r = Len(values) + 1 /\ emitted[k].l = Len(values)

\* a Sub of two stack operands has been emitted
C1_Witness ==
    /\ OrderedPrims # {}
    /\ instr.opcode = "Sub"
    /\ Len(values) = 1

\* C2: on a stream in which every operator finds its operands, each Var, Mem
\* or Imm raises the stack depth by one, each Neg or Not leaves it unchanged
\* and each binary opcode lowers it by one, and returning changes nothing; so
\* the depth is (leaves) - (binary opcodes) and one expression leaves one value.
C2_DepthAccounting ==
    [][ /\ (pc = "run" /\ pc' = "run" /\ Len(values) >= Pops(instr'.opcode))
            => Len(values') = Len(values) + 1 - Pops(instr'.opcode)
        /\ (pc = "run" /\ pc' = "returned") => values' = values ]_vars

\* emit_code returned at Ret after three instructions with one value left
C2_Witness ==
    /\ pc = "returned"
    /\ instr.opcode = "Ret"
    /\ i = 3
    /\ Len(values) = 1
    /\ values[1].op \notin {"imm", "mem"}

\* C3: a unary or binary opcode that finds fewer values than it pops aborts
\* the compilation with StackUnderflow; nothing is popped and nothing pushed.
C3_UnderflowReported ==
    [][ (/\ pc = "run"
         /\ pc' \in {"run", "crashed"}
         /\ Len(values) < Pops(instr'.opcode))
        => (err' = "StackUnderflow" /\ values' = values /\ pc' # "run") ]_vars

\* C4: a stream without Ret or Inv whose last instruction leaves more than one
\* value is rejected: emit_code does not return normally with such a stack.
C4_MalformedRejected ==
    ~ ( /\ pc = "returned"
        /\ instr.opcode \notin TerminalOps
        /\ Len(values) > 1
        /\ err = "none" )

\* the type/opcode combinations C5 lists, on the declared types of the
\* operands the instruction pops
Unsupported(ins, vals) ==
    LET n == Len(vals)
        a == vals[n].dtype
        b == vals[n - 1].dtype
        op == ins.opcode
    IN  \/ op = "Neg" /\ n >= 1 /\ a = "i128"
        \/ /\ op \in BinaryOps /\ n >= 2
           /\ \/ op \in {"And", "Or"} /\ {a, b} \subseteq {"f32", "f64", "i64"}
              \/ /\ op \in BinaryOps \ {"And", "Or", "Eq", "Ne"}
                 /\ {a, b} \cap ({"i128"} \cup HeaderTypes) # {}
              \/ a = "i128" /\ b \in NumericTypes
              \/ b = "i128" /\ a \in NumericTypes

\* C5: an unsupported type/opcode combination fails the compilation with
\* UnsupportedOperation; no primitive is emitted and no result pushed.
C5_UnsupportedReported ==
    [][ (/\ pc = "run"
         /\ pc' \in {"run", "crashed"}
         /\ Unsupported(instr', values))
        => (err' = "UnsupportedOperation" /\ emitted' = <<>> /\ values' = values) ]_vars

\* C6: at Ret or Inv emit_code returns: the stack is left as it was, nothing
\* is emitted, no error is set, whichever of the two the opcode is; and once
\* it has returned no later instruction is processed.
C6_TerminalStops ==
    [][ /\ (pc = "run" /\ instr'.opcode \in TerminalOps)
            => /\ pc' = "returned"
               /\ values' = values
               /\ emitted' = <<>>
               /\ err' = "none"
               /\ i' = i
        /\ pc = "returned" => UNCHANGED vars ]_vars

\* emit_code returned at Inv with values on the stack
C6_Witness ==
    /\ pc = "returned"
    /\ instr.opcode = "Inv"
    /\ Len(values) = 2
    /\ i < MaxSize

(***************************************************************************)
(* Properties of load_registers + convert (specification SpecPair).        *)
(***************************************************************************)
\* the tier of a numeric type: i8, i16 and i32 share one
Tier(t) == IF t \in Int32Class THEN "i32" ELSE t
\* the ordering {i8, i16, i32} < i64 < f32 < f64
TierRank(t) ==
    CASE Tier(t) = "i32" -> 1 [] Tier(t) = "i64" -> 2 [] Tier(t) = "f32" -> 3 [] OTHER -> 4
WiderTier(a, b) == IF TierRank(a) >= TierRank(b) THEN Tier(a) ELSE Tier(b)
FloatTypes == {"f32", "f64"}
IsReg(v) == v.op \in {"gpd", "gpq", "xmm"}

\* C7 as amended: load_registers followed by convert returns two operands of
\* the same tier: identical data types, except that two operands of the
\* 8/16/32-bit integer tier keep their own types i8, i16, i32.
C7_SameTier ==
    pair.st = "out" =>
        /\ Tier(pair.l.dtype) = Tier(pair.r.dtype)
        /\ (Tier(pair.l.dtype) # "i32" => pair.l.dtype = pair.r.dtype)

\* C7 as stated: the two operands returned have identical data types.
C7_IdenticalTypes ==
    pair.st = "out" => pair.l.dtype = pair.r.dtype

\* an i8 immediate next to an f32 memory operand has been loaded and converted
C7_Witness ==
    /\ pair.st = "out"
    /\ pair.lhs.op = "imm" /\ pair.lhs.dtype = "i8"
    /\ pair.rhs.op = "mem" /\ pair.rhs.dtype = "f32"
    /\ pair.l.dtype = "f32" /\ pair.r.dtype = "f32"

\* the common tier convert gives two register operands of types a and b
CommonTier(a, b) ==
    IF {Tier(a), Tier(b)} = {"i64", "f32"} THEN "f64" ELSE WiderTier(a, b)

\* C8 as amended: for two register operands the common tier is the wider of
\* the two tiers, and an integer paired with a float is converted to exactly
\* that float's width while the float is left as it is -- except i64 paired
\* with f32, where BOTH operands are converted to f64.
C8_CommonTier ==
    (pair.st = "out" /\ IsReg(pair.lhs) /\ IsReg(pair.rhs)) =>
        LET a == pair.lhs.dtype
            b == pair.rhs.dtype
        IN  /\ Tier(pair.l.dtype) = CommonTier(a, b)
            /\ Tier(pair.r.dtype) = CommonTier(a, b)
            /\ ({Tier(a), Tier(b)} # {"i64", "f32"} /\ a \in FloatTypes /\ b \notin FloatTypes)
                    => (pair.l = pair.lhs /\ pair.r.dtype = a)
            /\ ({Tier(a), Tier(b)} # {"i64", "f32"} /\ b \in FloatTypes /\ a \notin FloatTypes)
                    => (pair.r = pair.rhs /\ pair.l.dtype = b)
            /\ {Tier(a), Tier(b)} = {"i64", "f32"} =>
                    (pair.l # pair.lhs /\ pair.r # pair.rhs /\ Len(pair.code) = 2)

\* C8 as stated: the common tier is the wider of the two tiers of the inputs
\* (i64 with f32 gives f32), and the float operand is left unconverted.
C8_WiderOfInputs ==
    (pair.st = "out" /\ IsReg(pair.lhs) /\ IsReg(pair.rhs)) =>
        LET a == pair.lhs.dtype
            b == pair.rhs.dtype
        IN  /\ Tier(pair.l.dtype) = WiderTier(a, b)
            /\ Tier(pair.r.dtype) = WiderTier(a, b)
            /\ (a \in FloatTypes /\ b \notin FloatTypes) => pair.l = pair.lhs
            /\ (b \in FloatTypes /\ a \notin FloatTypes) => pair.r = pair.rhs

\* an i64 register and an f32 register have been converted, both to f64
C8_Witness ==
    /\ pair.st = "out"
    /\ pair.lhs.op = "gpq" /\ pair.lhs.dtype = "i64"
    /\ pair.rhs.op = "xmm" /\ pair.rhs.dtype = "f32"
    /\ pair.l.dtype = "f64" /\ pair.r.dtype = "f64"

(***************************************************************************)
(* Properties of the code of read_mem_varsize (specification SpecVs).      *)
(***************************************************************************)
\* length = next_offset - offset - header_size, from the inputs
VsLength == (vs.aux[vs.row + 2] - vs.aux[vs.row + 1]) - vs.header_size

\* C9: with offset = offsets[row], next = offsets[row + 1] and
\* length = next - offset - header_size, the result is length, the data vector
\* not read, if length # 0, and the header word of header_size bytes stored at
\* data_base[column] + offset if length = 0; it is typed i32 when header_size
\* is 4 and i64 otherwise.
C9_VarsizeRead ==
    vs.pc = "done" =>
        /\ VsLength # 0 => (vs.result = Bytes(VsLength, vs.header_size) /\ vs.loads = 0)
        /\ VsLength = 0 =>
                /\ vs.result = [k \in 1..vs.header_size |-> vs.data[vs.aux[vs.row + 1] + k]]
                /\ vs.loads = 1
        /\ vs.rtype = (IF vs.header_size = 4 THEN "i32" ELSE "i64")
        /\ vs.rtype \notin HeaderTypes

\* a binary column row of length 0 whose header word, the null sentinel, was read
C9_Witness ==
    /\ vs.pc = "done"
    /\ vs.header_size = 8
    /\ vs.loads = 1
    /\ vs.result = Bytes(-1, 8)
    /\ vs.aux[vs.row + 1] > 0

\* the column of C10: header size 4, offsets [0, 4, 4, 10], 0xFFFFFFFF at offset 4
C10_Column ==
    /\ vs.pc = "done"
    /\ vs.header_size = 4
    /\ SubSeq(vs.aux, 1, 4) = <<0, 4, 4, 10>>
    /\ Load(vs.data, 4, 4) = <<255, 255, 255, 255>>

Defined(ins, vals, nc) == Crashed \notin emit_instr(ins, vals, nc)

\* the value on top of a stack
Top(vals) == vals[Len(vals)]

\* C11: an Imm leaf pushes a Const operand and a Var or Mem leaf a Memory one;
\* Neg and Not (and the materialisation before them) keep the kind of their
\* operand; a binary opcode pushes Const if both operands it popped are Const
\* and Memory otherwise.  So a stream of Imm leaves only yields Const and a
\* stream with a Var or Mem leaf yields Memory.
C11_KindPropagation ==
    [][ (pc = "run" /\ pc' = "run" /\ Defined(instr', values, null_check)) =>
            LET op == instr'.opcode
                n == Len(values)
            IN  /\ op = "Imm" => Top(values').dkind = "kConst"
                /\ op \in {"Var", "Mem"} => Top(values').dkind = "kMemory"
                /\ op \in UnaryOps => Top(values').dkind = values[n].dkind
                /\ op \in BinaryOps =>
                        Top(values').dkind =
                            (IF values[n].dkind = "kConst" /\ values[n - 1].dkind = "kConst"
                             THEN "kConst" ELSE "kMemory") ]_vars

\* C15: no value on the evaluation stack has data type string_header,
\* binary_header or varchar_header: a Mem or Var leaf carrying a header type
\* tag pushes an operand typed i32 (string) or i64 (binary, varchar).
C15_NoHeaderOnStack ==
    /\ \A k \in 1..Len(values) : values[k].dtype \notin HeaderTypes
    /\ (pc = "run" /\ instr.opcode \in {"Mem", "Var"} /\ instr.options \in HeaderTypes) =>
            Top(values).dtype = (IF instr.options = "string_header" THEN "i32" ELSE "i64")

(***************************************************************************)
(* Comparisons on the walker (specification SpecTypes).                    *)
(***************************************************************************)
CmpOps == {"Eq", "Ne", "Gt", "Ge", "Lt", "Le"}

\* C12: every comparison opcode (Eq, Ne, Gt, Ge, Lt, Le) whose operands it
\* supports pushes a result of data type i32, whatever the promoted operand
\* type is: 8/16/32/64-bit integer, i128 (Eq and Ne), f32 or f64, the float
\* Gt/Ge/Lt/Le results composed through bin_and / bin_or included.
C12_ComparisonsPushI32 ==
    [][ (/\ pc = "run" /\ pc' = "run"
         /\ instr'.opcode \in CmpOps
         /\ Defined(instr', values, null_check))
        => (Top(values').dtype = "i32" /\ Top(values').op = "gpd") ]_vars

\* a Ge of two f32 column values has been composed through bin_or and its
\* result pushed
C12_Witness ==
    /\ pc = "run"
    /\ instr.opcode = "Ge"
    /\ \E k \in 1..Len(emitted) : emitted[k].prim = <<"float", "ge">>
    /\ \E k \in 1..Len(emitted) : emitted[k].prim = <<"int32", "or">>
    /\ Top(values).dtype = "i32"

(***************************************************************************)
(* Properties of the code of the float ordered comparisons (specification  *)
(* SpecFc).                                                                *)
(***************************************************************************)
\* C13: for f32 and f64 operands the code of Gt and Lt is (not epsilon-equal)
\* AND (ordering primitive) and the code of Ge and Le (epsilon-equal) OR
\* (ordering primitive); both operands are copied first and the ordering
\* primitive reads the copies, which hold the operands' values whether the
\* epsilon primitive has run or not; so for x, y within epsilon of each other
\* Gt and Lt give false and Ge and Le true, whatever the ordering primitive
\* returned.
C13_FloatOrdering ==
    fc.pc >= 1 =>
        LET strict == fc.op \in {"gt", "lt"}
        IN  /\ Len(fc.code) = 5
            /\ fc.code[1].prim[1] = "asm" /\ fc.code[1].l = 2
            /\ fc.code[2].prim[1] = "asm" /\ fc.code[2].l = 1
            /\ { fc.code[3].prim[2], fc.code[4].prim[2] }
                    = { IF strict THEN "ne_epsilon" ELSE "eq_epsilon", fc.op }
            /\ fc.code[5].prim = <<"int32", IF strict THEN "and" ELSE "or">>
            /\ fc.oin # <<>> => fc.oin = <<fc.x, fc.y>>
            /\ (fc.pc = 6 /\ WithinEpsilon(fc.x, fc.y)) =>
                    fc.result = (IF strict THEN 0 ELSE 1)

\* Gt has run on x, y within epsilon of each other with the ordering
\* primitive run before the epsilon primitive and returning true: the result
\* is false
C13_Witness ==
    /\ fc.pc = 6
    /\ fc.op = "gt"
    /\ fc.code[3].prim[2] = "gt"
    /\ fc.x = fc.y + 1
    /\ fc.o = 1
    /\ fc.e = 0
    /\ fc.result = 0

(***************************************************************************)
(* Properties of materialisation and conversion, step by step              *)
(* (specification SpecLoad).                                               *)
(***************************************************************************)
\* the storage class of operand v agrees with its data type
StorageAgrees(v) ==
    /\ v.dtype = "i128" => v.op \in {"mem", "xmm"}
    /\ (v.dtype \in FloatTypes /\ IsReg(v)) => v.op = "xmm"

\* C14: the storage class of an operand agrees with its data type: an operand
\* typed i128 is a memory reference or an xmm register, never an immediate or
\* a general-purpose register, and a register typed f32 or f64 is an xmm
\* register; in particular after load_registers has retyped an integer
\* immediate to the type of its i128 or float sibling.
C14_StorageAgrees ==
    pair.st \in {"loaded", "out", "again"} =>
        (StorageAgrees(pair.l) /\ StorageAgrees(pair.r))

\* the destination type operand v is materialised with next to sibling sib
DstType(v, sib) == IF isImm(v) /\ ~isImm(sib) THEN sib.dtype ELSE v.dtype

\* the literal n fits the signed 32-bit range
FitsInt32(n) == n.q = 0 \/ n.q = -1

\* operand v materialised as out, destination type dst, as C16 has it
MaterialisedAs(dst, v, out) ==
    IF isImm(v) /\ v.k.isInteger
    THEN IF dst \in FloatTypes THEN out.op = "xmm" /\ out.dtype = dst
         ELSE IF FitsInt32(v.k.i) /\ dst # "i64" THEN out.op = "gpd" /\ out.dtype = dst
         ELSE out.op = "gpq" /\ out.dtype = "i64"
    ELSE IF isImm(v) THEN out.op = "xmm" /\ out.dtype \in FloatTypes
    ELSE IF isMem(v) THEN IsReg(out) /\ out.dtype = v.dtype
    ELSE out = v

\* C16: when exactly one operand is an integer immediate and the other is not
\* an immediate, the immediate is materialised with the sibling's declared
\* type as destination: for an integral destination a 32-bit register typed
\* with the destination type when the literal fits the signed 32-bit range
\* and the destination is not i64, otherwise a 64-bit register typed i64; for
\* an f32 / f64 destination a float register of exactly that width.  When
\* both or neither operand is an immediate each is materialised with its own
\* declared type.
C16_ImmediateTakesSiblingType ==
    pair.st = "loaded" =>
        /\ MaterialisedAs(DstType(pair.lhs, pair.rhs), pair.lhs, pair.l)
        /\ MaterialisedAs(DstType(pair.rhs, pair.lhs), pair.rhs, pair.r)
        /\ pair.l.slot = pair.lhs.slot /\ pair.r.slot = pair.rhs.slot

\* an i8 literal that does not fit 32 bits, next to an i32 column value, has
\* become a 64-bit register typed i64
C16_Witness ==
    /\ pair.st = "loaded"
    /\ isImm(pair.lhs) /\ pair.lhs.dtype = "i8" /\ pair.lhs.k.i = I64(1, 0)
    /\ isMem(pair.rhs) /\ pair.rhs.dtype = "i32"
    /\ pair.l.op = "gpq" /\ pair.l.dtype = "i64"
    /\ pair.r.op = "gpd" /\ pair.r.dtype = "i32"

\* the magnitude of the literal m * 10^e fits the 32-bit float range
MagnitudeFits(x) ==
    LET a == IF x.m < 0 THEN 0 - x.m ELSE x.m
    IN  \/ a = 0
        \/ /\ (x.e > -38 \/ (x.e = -38 /\ a >= 2))
           /\ (x.e < 38 \/ (x.e = 38 /\ a <= 3))

\* float immediate v materialised as out, destination type dst, as C17 has it
FloatImmediateAs(dst, v, out) ==
    (isImm(v) /\ ~v.k.isInteger) =>
        /\ out.op = "xmm"
        /\ out.dtype = (IF dst \in {"i64", "f64"} \/ ~MagnitudeFits(v.k.d) THEN "f64" ELSE "f32")

\* C17: a float immediate is materialised as a 64-bit float constant typed
\* f64 exactly when the destination type is 64-bit or the literal's magnitude
\* does not fit the 32-bit float range, and as a 32-bit float constant typed
\* f32 otherwise; zero and the negative literals of magnitude within the range
\* become f32 constants when the destination is not 64-bit.
C17_FloatImmediateWidth ==
    pair.st = "loaded" =>
        /\ FloatImmediateAs(DstType(pair.lhs, pair.rhs), pair.lhs, pair.l)
        /\ FloatImmediateAs(DstType(pair.rhs, pair.lhs), pair.rhs, pair.r)

\* both operands have one of the types i8, i16, i32, i64, f32, f64
BothNumeric(a, b) == a.dtype \in NumericTypes /\ b.dtype \in NumericTypes

\* C18: convert is idempotent: for operands of the types i8, i16, i32, i64,
\* f32, f64, convert applied to the pair convert returned returns that pair
\* unchanged and emits no conversion primitive; and a pair whose two types are
\* in the same tier is returned unchanged by the first application already.
C18_ConvertIdempotent ==
    [][ /\ (pair.st = "out" /\ pair'.st # "crashed" /\ pair'.st # "res"
               /\ BothNumeric(pair.l, pair.r))
            => (pair'.st = "again" /\ pair'.l = pair.l /\ pair'.r = pair.r /\ pair'.code = <<>>)
        /\ (pair.st = "loaded" /\ BothNumeric(pair.l, pair.r)
               /\ Tier(pair.l.dtype) = Tier(pair.r.dtype))
            => (pair'.st = "out" /\ pair'.l = pair.l /\ pair'.r = pair.r /\ pair'.code = <<>>)
        /\ (pair.st = "out" /\ BothNumeric(pair.l, pair.r)) => pair'.st # "crashed"
      ]_vars

\* an i64 and an f32 register were converted, both to f64, and converting the
\* pair again changed and emitted nothing
C18_Witness ==
    /\ pair.st = "again"
    /\ pair.lhs.op = "gpq" /\ pair.lhs.dtype = "i64"
    /\ pair.rhs.op = "xmm" /\ pair.rhs.dtype = "f32"
    /\ pair.l.dtype = "f64" /\ pair.r.dtype = "f64"
    /\ pair.code = <<>>

\* the operand of the pair at slot n: lhs is at slot 2, rhs at slot 1
OperandAt(n) == IF n = 2 THEN pair.lhs ELSE pair.rhs

\* the operand at slot n is the result of the earlier operation
IsResult(n) == pair.prev # NoPrev /\ pair.prev.at = n

\* the types the operand at slot n had when read from its column or variable:
\* its own for a column value, those of the operands it was computed from
\* for a result
OriginalTypes(n) ==
    IF IsResult(n) THEN {pair.prev.a, pair.prev.b} ELSE {OperandAt(n).dtype}

\* the conversions of an integer to a wider tier
IntegerWidenings == {"int32_to_int64", "int32_to_float", "int32_to_double", "int64_to_double"}

\* C19: with null_check enabled, a widening conversion emitted by convert
\* carries the null check unless the original type of the converted operand
\* was i8 or i16, and only then is it suppressed: a result of an operation
\* that had an i32 or i64 operand, which can hold the null sentinel, is not
\* widened with the null check suppressed, and a 64-bit source is always
\* converted with the null check.
C19_NullCheckSuppression ==
    (pair.st = "out" /\ pair.nc) =>
        \A k \in 1..Len(pair.code) :
            LET c == pair.code[k]
            IN  (/\ c.prim[1] = "cvt"
                 /\ c.prim[2] \in IntegerWidenings
                 /\ (isMem(OperandAt(c.l)) \/ IsResult(c.l)))
                => (c.nc = FALSE => OriginalTypes(c.l) \subseteq {"i8", "i16"})

====
